---- MODULE Spec2Model ----
(***************************************************************************)
(* Model of src/main.py: a console survey tool that reads forms (age,      *)
(* gender, education, yes/no answer) through three validating readers,     *)
(* stores them in the SQLite table "forms" and prints a listing and three  *)
(* fixed statistics.                                                       *)
(*                                                                         *)
(* Text is modelled as a sequence of characters, each character a string.  *)
(* The Cyrillic letters of the source are written by name:                 *)
(*   cy_em / CY_EM   small / capital EM  (the Gender.MALE token)           *)
(*   cy_zhe / CY_ZHE small / capital ZHE (the Gender.FEMALE token)         *)
(*   cy_en / CY_EN   small / capital EN  (Education.PRIMARY, and "no")     *)
(*   cy_es / CY_ES   small / capital ES  (Education.SECONDARY)             *)
(*   cy_ve / CY_VE   small / capital VE  (Education.HIGHER)                *)
(*   cy_de / CY_DE   small / capital DE  ("yes")                           *)
(***************************************************************************)
EXTENDS Integers, Sequences, FiniteSets, TLC

VARIABLES
    pc,        \* where main() is: "start", "menu", "age", "gender", "education", "answer", "exited"
    conn,      \* the sqlite3 connection: "none", "open", "closed"
    table,     \* the rows of forms as the connection sees them (uncommitted ones included)
    disk,      \* the committed rows of forms in DataBase.db
    form,      \* the fields add_form has read so far
    choice,    \* the value menu() returned last
    out,       \* what the last step printed (menu text and prompts left out)
    error,     \* the exception that ended the process, <<type, raised in>>, or <<"none", "none">>
    added,     \* history: the forms of the add operations completed in this run, in order
    prior,     \* history: the forms DataBase.db held when the process started, in id order
    rd         \* one call of a reader, followed on its own (the specification SpecReaders)

vars == <<pc, conn, table, disk, form, choice, out, error, added, prior, rd>>

mainVars == <<pc, conn, table, disk, form, choice, out, error, added, prior>>

-----------------------------------------------------------------------------
(* Bounds of the model *)

\* longest line typed at an integer prompt, in characters
MaxIntLen == 3
\* longest line typed at an enumerated or yes/no prompt, in characters
MaxTextLen == 2
\* console reads followed within one reader call
MaxReads == 3
\* add operations completed within one run of main()
MaxForms == 2
\* rows inserted in the statistics specification
MaxStatRows == 2

-----------------------------------------------------------------------------
(* Characters and str methods *)

Digits == <<"0", "1", "2", "3", "4", "5", "6", "7", "8", "9">>

DigitSet == {Digits[i] : i \in 1..Len(Digits)}

DigitVal(c) == (CHOOSE i \in 1..Len(Digits) : Digits[i] = c) - 1

IsSpace(c) == c \in {" ", "\t"}

\* str.lower() on one character
LowerChar(c) ==
    CASE c = "CY_EM"  -> "cy_em"
      [] c = "CY_ZHE" -> "cy_zhe"
      [] c = "CY_EN"  -> "cy_en"
      [] c = "CY_ES"  -> "cy_es"
      [] c = "CY_VE"  -> "cy_ve"
      [] c = "CY_DE"  -> "cy_de"
      [] c = "M"      -> "m"
      [] OTHER        -> c

\* str.lower()
lower(s) == [i \in 1..Len(s) |-> LowerChar(s[i])]

RECURSIVE lstrip(_)
lstrip(s) == IF Len(s) > 0 /\ IsSpace(s[1]) THEN lstrip(Tail(s)) ELSE s

RECURSIVE rstrip(_)
rstrip(s) ==
    IF Len(s) > 0 /\ IsSpace(s[Len(s)]) THEN rstrip(SubSeq(s, 1, Len(s) - 1)) ELSE s

\* str.strip()
strip(s) == rstrip(lstrip(s))

RECURSIVE DecimalValue(_)
DecimalValue(ds) ==
    IF Len(ds) = 0 THEN 0
    ELSE 10 * DecimalValue(SubSeq(ds, 1, Len(ds) - 1)) + DigitVal(ds[Len(ds)])

\* int(str): surrounding whitespace is dropped, one sign is allowed, the digits
\* may be grouped by single underscores; anything else is a ValueError
py_int(s) ==
    LET t      == strip(s)
        signed == Len(t) > 0 /\ t[1] \in {"+", "-"}
        body   == IF signed THEN Tail(t) ELSE t
        n      == Len(body)
        wellFormed ==
            /\ n > 0
            /\ \A i \in 1..n : body[i] \in DigitSet \cup {"_"}
            /\ body[1] # "_"
            /\ body[n] # "_"
            /\ \A i \in 1..(n - 1) : ~(body[i] = "_" /\ body[i + 1] = "_")
        mag    == DecimalValue(SelectSeq(body, LAMBDA c : c \in DigitSet))
    IN  IF wellFormed
        THEN [ok |-> TRUE, val |-> IF signed /\ t[1] = "-" THEN 0 - mag ELSE mag]
        ELSE [ok |-> FALSE, val |-> 0]

-----------------------------------------------------------------------------
(* The console *)

\* input() returns a line or raises EOFError at end of input
Line(text) == [kind |-> "line", text |-> text]

Eof == [kind |-> "eof", text |-> <<>>]

Strings(alphabet, n) == UNION {[1..k -> alphabet] : k \in 0..n}

-----------------------------------------------------------------------------
(* Enums *)

Gender == <<"MALE", "FEMALE">>

Education == <<"PRIMARY", "SECONDARY", "HIGHER">>

\* e.value
value(e) ==
    CASE e = "MALE"      -> <<"cy_em">>
      [] e = "FEMALE"    -> <<"cy_zhe">>
      [] e = "PRIMARY"   -> <<"cy_en">>
      [] e = "SECONDARY" -> <<"cy_es">>
      [] e = "HIGHER"    -> <<"cy_ve">>

EnumClass(name) == IF name = "Gender" THEN Gender ELSE Education

-----------------------------------------------------------------------------
(* Readers: one pass of each reader's while-True loop on one console read *)

MsgRange(lo, hi) == <<"Enter a number from lo to hi.", lo, hi>>

MsgIntRequired == <<"Error: an integer is required.">>

MsgBadInput == <<"Invalid input.">>

MsgYesNo == <<"Enter yes-letter or no-letter.">>

Returned(v) == [status |-> "return", val |-> v, msg |-> <<>>]

Reprompt(m) == [status |-> "reprompt", val |-> 0, msg |-> m]

Raised(exc) == [status |-> "raise", val |-> 0, msg |-> <<exc>>]

\* mutant of in_range: the lower limit itself is refused
in_range_exclusive(lo, val, hi) == lo < val /\ val <= hi

in_range(lo, val, hi) == lo <= val /\ val <= hi

\* mutant of read_int: the range test is left out
read_int_unchecked(inp, lo, hi) ==
    IF inp.kind = "eof" THEN Raised("EOFError")
    ELSE LET parsed == py_int(inp.text)
         IN  IF ~parsed.ok THEN Reprompt(MsgIntRequired) ELSE Returned(parsed.val)

read_int(inp, lo, hi) ==
    IF inp.kind = "eof" THEN Raised("EOFError")
    ELSE LET parsed == py_int(inp.text)
         IN  IF ~parsed.ok THEN Reprompt(MsgIntRequired)
             ELSE IF in_range(lo, parsed.val, hi) THEN Returned(parsed.val)
             ELSE Reprompt(MsgRange(lo, hi))

\* mutant of enum_token: .lower() is left out
enum_token_as_typed(text) == text

\* the token read_enum compares with the members' values
enum_token(text) == lower(text)

read_enum(inp, enum_cls) ==
    IF inp.kind = "eof" THEN Raised("EOFError")
    ELSE LET val  == enum_token(inp.text)
             hits == {i \in 1..Len(enum_cls) : val = value(enum_cls[i])}
         IN  IF hits = {} THEN Reprompt(MsgBadInput)
             ELSE Returned(enum_cls[CHOOSE i \in hits : \A j \in hits : i <= j])

\* mutant of read_yes_no: the two answers are swapped
read_yes_no_swapped(inp) ==
    IF inp.kind = "eof" THEN Raised("EOFError")
    ELSE LET val == lower(inp.text)
         IN  IF val \in {<<"cy_de">>, <<"cy_en">>} THEN Returned(val = <<"cy_en">>)
             ELSE Reprompt(MsgYesNo)

\* the token read_yes_no tests
yes_no_token(text) == lower(text)

read_yes_no(inp) ==
    IF inp.kind = "eof" THEN Raised("EOFError")
    ELSE LET val == yes_no_token(inp.text)
         IN  IF val \in {<<"cy_de">>, <<"cy_en">>} THEN Returned(val = <<"cy_de">>)
             ELSE Reprompt(MsgYesNo)

-----------------------------------------------------------------------------
(* One reader call followed on its own: the specification SpecReaders *)

IntAlphabet == {"0", "1", "2", "-", "+", "_", " ", ".", "a"}

TextAlphabet ==
    {"cy_em", "CY_EM", "cy_zhe", "cy_en", "CY_EN", "cy_es", "cy_ve", "CY_VE",
     "cy_de", "CY_DE", " ", "m"}

IntLimits == {-2, 0, 1, 12, 120}

IntInputs == {Line(t) : t \in Strings(IntAlphabet, MaxIntLen)} \cup {Eof}

TextInputs == {Line(t) : t \in Strings(TextAlphabet, MaxTextLen)} \cup {Eof}

NoResult == [status |-> "none", val |-> 0, msg |-> <<>>]

\* nothing typed yet
NoInput == [kind |-> "none", text |-> <<>>]

\* rd: the reader called (fn) and its arguments (lo, hi, cls), what the operator
\* has typed and input() has not yet returned (stdin), the outcome of the last
\* pass of the loop (res), the number of passes made (n) and, once the reader
\* has returned, the line it returned on (taken)
RdCall(fn, lo, hi, cls) ==
    [fn |-> fn, lo |-> lo, hi |-> hi, cls |-> cls, stdin |-> NoInput, res |-> NoResult,
     n |-> 0, taken |-> <<>>]

RdIdle == RdCall("none", 0, 0, "none")

ReaderCalls ==
    {RdCall("read_int", p[1], p[2], "none") :
        p \in {q \in IntLimits \X IntLimits : q[1] <= q[2]}}
    \cup {RdCall("read_enum", 0, 0, cls) : cls \in {"Gender", "Education"}}
    \cup {RdCall("read_yes_no", 0, 0, "none")}

\* the reader is inside its loop, blocked in input()
RdPrompting == rd.res.status \in {"none", "reprompt"}

\* the operator types a line, or closes the input
OperatorTypes ==
    /\ rd.fn # "none" /\ RdPrompting /\ rd.stdin.kind = "none" /\ rd.n < MaxReads
    /\ \E inp \in (IF rd.fn = "read_int" THEN IntInputs ELSE TextInputs) :
           rd' = [rd EXCEPT !.stdin = inp]
    /\ UNCHANGED mainVars

\* input() returns and the loop body runs once
RdPass(res) ==
    rd' = [rd EXCEPT !.stdin = NoInput, !.res = res, !.n = rd.n + 1,
                     !.taken = IF res.status = "return" THEN rd.stdin.text ELSE <<>>]

ReadIntPass ==
    /\ rd.fn = "read_int" /\ RdPrompting /\ rd.stdin.kind # "none"
    /\ RdPass(read_int(rd.stdin, rd.lo, rd.hi))
    /\ UNCHANGED mainVars

ReadEnumPass ==
    /\ rd.fn = "read_enum" /\ RdPrompting /\ rd.stdin.kind # "none"
    /\ RdPass(read_enum(rd.stdin, EnumClass(rd.cls)))
    /\ UNCHANGED mainVars

ReadYesNoPass ==
    /\ rd.fn = "read_yes_no" /\ RdPrompting /\ rd.stdin.kind # "none"
    /\ RdPass(read_yes_no(rd.stdin))
    /\ UNCHANGED mainVars

-----------------------------------------------------------------------------
(* The store: table forms of DataBase.db *)

\* CHECK(age BETWEEN 0 AND 120)
CheckAgeLo == 0
CheckAgeHi == 120

\* a row of forms
Row(id, p) ==
    [id |-> id, age |-> p.age, gender |-> p.gender, education |-> p.education,
     answer_yes |-> p.answer_yes]

\* the CHECK constraints of SCHEMA_SQL
schema_check(p) ==
    /\ CheckAgeLo <= p.age /\ p.age <= CheckAgeHi
    /\ p.gender \in {<<"cy_em">>, <<"cy_zhe">>}
    /\ p.education \in {<<"cy_en">>, <<"cy_es">>, <<"cy_ve">>}
    /\ p.answer_yes \in {0, 1}

\* id INTEGER PRIMARY KEY AUTOINCREMENT: one more than the largest id used
\* (no row is ever deleted, so the largest id used is the largest id present)
next_id(t) ==
    IF t = {} THEN 1 ELSE (CHOOSE i \in {r.id : r \in t} : \A r \in t : r.id <= i) + 1

\* cur.execute('INSERT INTO forms(age, gender, education, answer_yes) VALUES (?,?,?,?)', p)
execute_insert(t, p) ==
    IF schema_check(p)
    THEN [ok |-> TRUE, table |-> t \cup {Row(next_id(t), p)}]
    ELSE [ok |-> FALSE, table |-> t]

\* mutant of order_by_id: ORDER BY id DESC
RECURSIVE order_by_id_desc(_)
order_by_id_desc(t) ==
    IF t = {} THEN <<>>
    ELSE LET last == CHOOSE r \in t : \A q \in t : r.id >= q.id
         IN  <<last>> \o order_by_id_desc(t \ {last})

\* SELECT ... FROM forms ORDER BY id
RECURSIVE order_by_id(_)
order_by_id(t) ==
    IF t = {} THEN <<>>
    ELSE LET first == CHOOSE r \in t : \A q \in t : r.id <= q.id
         IN  <<first>> \o order_by_id(t \ {first})

\* mutant of commit: conn.commit() is left out
commit_skipped(view, persisted) == persisted

\* conn.commit(): what the connection sees becomes what the file holds
commit(view, persisted) == view

-----------------------------------------------------------------------------
(* Record operations *)

FormAgeLo == 0
FormAgeHi == 120

\* the parameters add_form binds: (age, gender.value, education.value, int(answer))
insert_params(f) ==
    [age |-> f.age, gender |-> value(f.gender), education |-> value(f.education),
     answer_yes |-> IF f.answer THEN 1 ELSE 0]

Printed(m) == [kind |-> "msg", text |-> m]

MsgThanks == <<"Thank you, the form is added!">>

MsgEmpty == <<"The list of forms is empty.">>

MsgNoSuchItem == <<"No such item.">>

MsgBye == <<"Goodbye!">>

\* one line of the listing
list_line(idx, r) ==
    [idx |-> idx,
     age |-> r.age,
     gender_ru |-> IF r.gender = <<"cy_em">> THEN "muzh" ELSE "zhen",
     edu_ru |-> CASE r.education = <<"cy_en">> -> "nach"
                  [] r.education = <<"cy_es">> -> "sred"
                  [] r.education = <<"cy_ve">> -> "vyssh",
     answer |-> IF r.answer_yes # 0 THEN "DA" ELSE "NET"]

list_forms(t) ==
    LET rows == order_by_id(t)
    IN  IF rows = <<>> THEN <<Printed(MsgEmpty)>>
        ELSE <<[kind |-> "list", lines |-> [i \in 1..Len(rows) |-> list_line(i, rows[i])]]>>

Over40 == 40
Under30 == 30
Under25 == 25

\* mutant of men_40_yes: age >= 40
men_40_yes_inclusive(r) ==
    r.gender = <<"cy_em">> /\ r.age >= Over40 /\ r.education = <<"cy_ve">> /\ r.answer_yes = 1

men_40_yes(r) ==
    r.gender = <<"cy_em">> /\ r.age > Over40 /\ r.education = <<"cy_ve">> /\ r.answer_yes = 1

women_30_no(r) ==
    r.gender = <<"cy_zhe">> /\ r.age < Under30 /\ r.education = <<"cy_es">> /\ r.answer_yes = 0

men_25_yes(r) ==
    r.gender = <<"cy_em">> /\ r.age < Under25 /\ r.education = <<"cy_en">> /\ r.answer_yes = 1

\* the three SELECT COUNT(*) of show_stats
stat_counts(t) ==
    <<Cardinality({r \in t : men_40_yes(r)}),
      Cardinality({r \in t : women_30_no(r)}),
      Cardinality({r \in t : men_25_yes(r)})>>

show_stats(t) == <<[kind |-> "stats", counts |-> stat_counts(t)]>>

-----------------------------------------------------------------------------
(* main() *)

NoForm == [age |-> 0, gender |-> "none", education |-> "none"]

NoError == <<"none", "none">>

MainInit(priorForms) ==
    /\ pc = "start"
    /\ conn = "none"
    /\ table = {}
    /\ form = NoForm
    /\ choice = <<>>
    /\ out = <<>>
    /\ error = NoError
    /\ added = <<>>
    /\ prior = priorForms

\* the forms a file left by earlier runs may hold
PriorStores ==
    {<<>>, <<[age |-> 52, gender |-> "FEMALE", education |-> "HIGHER", answer |-> FALSE]>>}

\* the rows the forms fs were stored as, with ids 1, 2, ...
RECURSIVE StoreOf(_)
StoreOf(fs) ==
    IF fs = <<>> THEN {}
    ELSE LET t == StoreOf(SubSeq(fs, 1, Len(fs) - 1))
         IN  execute_insert(t, insert_params(fs[Len(fs)])).table

MenuLines ==
    {<<"1">>, <<"2">>, <<"3">>, <<"0">>, <<" ", "0">>, <<"1", " ">>, <<"9">>, <<>>,
     <<"0", "1">>}

AgeLines == {<<"2", "0">>, <<"4", "1">>, <<"1", "2", "1">>, <<"-", "1">>, <<"a">>, <<>>}

GenderLines == {<<"cy_em">>, <<"CY_ZHE">>, <<"m">>, <<" ", "cy_em">>}

EducationLines == {<<"cy_en">>, <<"CY_ES">>, <<"cy_ve">>, <<"cy_de">>}

AnswerLines == {<<"cy_de">>, <<"CY_EN">>, <<"cy_em">>}

Inputs(lines) == {Line(t) : t \in lines} \cup {Eof}

\* the finally clause of main(), reached by break (exc = "none") or by an exception
Finally(exc, where) ==
    /\ conn' = "closed"
    /\ out' = <<Printed(MsgBye)>>
    /\ pc' = "exited"
    /\ error' = <<exc, where>>

\* conn = sqlite3.connect(path) raises: there is no connection
OpenDbConnectFails ==
    /\ pc = "start"
    /\ pc' = "exited"
    /\ error' = <<"OperationalError", "connect">>
    /\ UNCHANGED <<conn, table, disk, form, choice, out, added, prior, rd>>

\* connect succeeds and conn.execute(SCHEMA_SQL) or conn.commit() raises: the
\* exception leaves open_db and main(), whose try statement is not yet entered
OpenDbSchemaFails ==
    /\ pc = "start"
    /\ conn' = "open"
    /\ pc' = "exited"
    /\ error' = <<"DatabaseError", "open_db">>
    /\ UNCHANGED <<table, disk, form, choice, out, added, prior, rd>>

\* open_db() returns: CREATE TABLE IF NOT EXISTS keeps the rows of earlier runs
OpenDb ==
    /\ pc = "start"
    /\ conn' = "open"
    /\ table' = disk
    /\ pc' = "menu"
    /\ UNCHANGED <<disk, form, choice, out, error, added, prior, rd>>

\* choice = menu()
menu(inp) == strip(inp.text)

\* mutant of dispatch: the else branch leaves the loop
dispatch_else_break(c) ==
    CASE c = <<"1">> -> "add_form"
      [] c = <<"2">> -> "list_forms"
      [] c = <<"3">> -> "show_stats"
      [] OTHER       -> "break"

\* the if/elif chain of main()
dispatch(c) ==
    CASE c = <<"1">> -> "add_form"
      [] c = <<"2">> -> "list_forms"
      [] c = <<"3">> -> "show_stats"
      [] c = <<"0">> -> "break"
      [] OTHER       -> "unknown"

MenuReads(inp, branch) ==
    /\ pc = "menu"
    /\ inp.kind = "line"
    /\ dispatch(menu(inp)) = branch
    /\ choice' = menu(inp)

\* choice '1': add_form starts and blocks at the age prompt
ChooseAdd ==
    /\ Len(added) < MaxForms
    /\ \E inp \in Inputs(MenuLines) : MenuReads(inp, "add_form")
    /\ pc' = "age"
    /\ form' = [age |-> 0, gender |-> "none", education |-> "none"]
    /\ out' = <<>>
    /\ UNCHANGED <<conn, table, disk, error, added, prior, rd>>

ChooseList ==
    /\ \E inp \in Inputs(MenuLines) : MenuReads(inp, "list_forms")
    /\ out' = list_forms(table)
    /\ UNCHANGED <<pc, conn, table, disk, form, error, added, prior, rd>>

ChooseStats ==
    /\ \E inp \in Inputs(MenuLines) : MenuReads(inp, "show_stats")
    /\ out' = show_stats(table)
    /\ UNCHANGED <<pc, conn, table, disk, form, error, added, prior, rd>>

ChooseQuit ==
    /\ \E inp \in Inputs(MenuLines) : MenuReads(inp, "break")
    /\ Finally("none", "none")
    /\ UNCHANGED <<table, disk, form, added, prior, rd>>

ChooseUnknown ==
    /\ \E inp \in Inputs(MenuLines) : MenuReads(inp, "unknown")
    /\ out' = <<Printed(MsgNoSuchItem)>>
    /\ UNCHANGED <<pc, conn, table, disk, form, error, added, prior, rd>>

\* input() in menu() raises EOFError
MenuEof ==
    /\ pc = "menu"
    /\ Finally("EOFError", "menu")
    /\ UNCHANGED <<table, disk, form, choice, added, prior, rd>>

\* a reader inside add_form reprompts, or its exception leaves add_form and main()
ReaderFails(r, fn) ==
    /\ r.status # "return"
    /\ IF r.status = "reprompt"
       THEN /\ out' = <<Printed(r.msg)>>
            /\ UNCHANGED <<pc, conn, error>>
       ELSE Finally(r.msg[1], fn)
    /\ UNCHANGED <<table, disk, form, choice, added, prior, rd>>

\* age = read_int(..., 0, 120)
ReadAge ==
    /\ pc = "age"
    /\ \E inp \in Inputs(AgeLines) :
         LET r == read_int(inp, FormAgeLo, FormAgeHi)
         IN  \/ /\ r.status = "return"
                /\ form' = [form EXCEPT !.age = r.val]
                /\ pc' = "gender"
                /\ out' = <<>>
                /\ UNCHANGED <<conn, table, disk, choice, error, added, prior, rd>>
             \/ ReaderFails(r, "read_int")

\* gender = read_enum(..., Gender)
ReadGender ==
    /\ pc = "gender"
    /\ \E inp \in Inputs(GenderLines) :
         LET r == read_enum(inp, Gender)
         IN  \/ /\ r.status = "return"
                /\ form' = [form EXCEPT !.gender = r.val]
                /\ pc' = "education"
                /\ out' = <<>>
                /\ UNCHANGED <<conn, table, disk, choice, error, added, prior, rd>>
             \/ ReaderFails(r, "read_enum")

\* education = read_enum(..., Education)
ReadEducation ==
    /\ pc = "education"
    /\ \E inp \in Inputs(EducationLines) :
         LET r == read_enum(inp, Education)
         IN  \/ /\ r.status = "return"
                /\ form' = [form EXCEPT !.education = r.val]
                /\ pc' = "answer"
                /\ out' = <<>>
                /\ UNCHANGED <<conn, table, disk, choice, error, added, prior, rd>>
             \/ ReaderFails(r, "read_enum")

\* the rest of add_form once its four fields are read, and conn.commit() in main():
\* the INSERT, which raises sqlite3.IntegrityError when a CHECK fails
StoreForm(f) ==
    LET ins == execute_insert(table, insert_params(f))
    IN  IF ins.ok
        THEN /\ table' = ins.table
             /\ disk' = commit(ins.table, disk)
             /\ added' = Append(added, f)
             /\ out' = <<Printed(MsgThanks)>>
             /\ pc' = "menu"
             /\ UNCHANGED <<conn, error>>
        ELSE /\ Finally("IntegrityError", "add_form")
             /\ UNCHANGED <<table, disk, added>>

\* answer = read_yes_no(...)
ReadAnswer ==
    /\ pc = "answer"
    /\ \E inp \in Inputs(AnswerLines) :
         LET r == read_yes_no(inp)
         IN  \/ /\ r.status = "return"
                /\ StoreForm([age |-> form.age, gender |-> form.gender,
                              education |-> form.education, answer |-> r.val])
                /\ UNCHANGED <<form, choice, prior, rd>>
             \/ ReaderFails(r, "read_yes_no")

Init ==
    /\ \E p \in PriorStores : MainInit(p) /\ disk = StoreOf(p)
    /\ rd = RdIdle

Next ==
    \/ OpenDbConnectFails \/ OpenDbSchemaFails \/ OpenDb
    \/ ChooseAdd \/ ChooseList \/ ChooseStats \/ ChooseQuit \/ ChooseUnknown \/ MenuEof
    \/ ReadAge \/ ReadGender \/ ReadEducation \/ ReadAnswer

Spec == Init /\ [][Next]_vars

-----------------------------------------------------------------------------
(* SpecReaders: each reader called with each of its arguments *)

ReadersInit ==
    /\ MainInit(<<>>)
    /\ disk = {}
    /\ rd \in ReaderCalls

ReadersNext == OperatorTypes \/ ReadIntPass \/ ReadEnumPass \/ ReadYesNoPass

SpecReaders == ReadersInit /\ [][ReadersNext]_vars

-----------------------------------------------------------------------------
(* SpecStats: choice '1' taken with the values the four readers return drawn
   directly, so that the ages around every threshold of show_stats are stored *)

StatAges == {24, 25, 29, 30, 40, 41}

StatForms ==
    [age : StatAges, gender : {Gender[i] : i \in 1..Len(Gender)},
     education : {Education[i] : i \in 1..Len(Education)}, answer : BOOLEAN]

\* choice '1' with add_form's readers returning the fields of f
AddForm ==
    /\ pc = "menu"
    /\ Cardinality(table) < MaxStatRows
    /\ \E f \in StatForms :
         /\ in_range(FormAgeLo, f.age, FormAgeHi)
         /\ StoreForm(f)
         /\ form' = [age |-> f.age, gender |-> f.gender, education |-> f.education]
    /\ choice' = <<"1">>
    /\ UNCHANGED <<prior, rd>>

StatsInit ==
    /\ pc = "menu"
    /\ conn = "open"
    /\ table = {}
    /\ disk = {}
    /\ form = NoForm
    /\ choice = <<>>
    /\ out = <<>>
    /\ error = NoError
    /\ added = <<>>
    /\ prior = <<>>
    /\ rd = RdIdle

StatsNext == AddForm \/ ChooseStats

SpecStats == StatsInit /\ [][StatsNext]_vars

-----------------------------------------------------------------------------
(* Properties *)

Running == {"menu", "age", "gender", "education", "answer"}

\* the line list_forms is to print for form f entered as the idx-th
ShownAs(idx, f) ==
    [idx |-> idx,
     age |-> f.age,
     gender_ru |-> CASE f.gender = "MALE" -> "muzh" [] f.gender = "FEMALE" -> "zhen",
     edu_ru |-> CASE f.education = "PRIMARY" -> "nach"
                  [] f.education = "SECONDARY" -> "sred"
                  [] f.education = "HIGHER" -> "vyssh",
     answer |-> IF f.answer THEN "DA" ELSE "NET"]

\* what list_forms is to print when the forms fs were entered in this order
ListingOf(fs) ==
    IF fs = <<>> THEN <<Printed(MsgEmpty)>>
    ELSE <<[kind |-> "list", lines |-> [i \in 1..Len(fs) |-> ShownAs(i, fs[i])]]>>

\* C1: at every point of the menu loop list_forms prints exactly the forms the
\* file held at the start followed by the forms added in this run (from an empty
\* store: exactly the forms added), each with the age, gender, education and
\* answer it was entered with and in the order of entry; the listing printed by
\* choice '2' is that listing. No later operation changes, reorders or removes
\* an earlier record.
C1_ListShowsAdded ==
    /\ pc \in Running => list_forms(table) = ListingOf(prior \o added)
    /\ (pc = "menu" /\ choice = <<"2">>) => out = ListingOf(prior \o added)

C1_Witness ==
    /\ pc = "menu" /\ choice = <<"2">>
    /\ prior = <<>>
    /\ Len(added) = 2 /\ added[1] # added[2]
    /\ Len(out) = 1 /\ out[1].kind = "list" /\ Len(out[1].lines) = 2

\* whether form f satisfies the four clauses of statistic k
Satisfies(f, k) ==
    CASE k = 1 -> f.gender = "MALE" /\ f.age > 40 /\ f.education = "HIGHER" /\ f.answer
      [] k = 2 -> f.gender = "FEMALE" /\ f.age < 30 /\ f.education = "SECONDARY" /\ ~f.answer
      [] k = 3 -> f.gender = "MALE" /\ f.age < 25 /\ f.education = "PRIMARY" /\ f.answer

\* C2: adding a form raises the count of a statistic of show_stats by exactly one
\* when the form satisfies all four clauses of that statistic and leaves it as it
\* was when the form violates a clause (the ages 40, 30 and 25 violate the age
\* clauses); one added form raises at most one of the three counts.
C2_StatCounts ==
    [][Len(added') = Len(added) + 1 =>
         LET f      == added'[Len(added')]
             before == stat_counts(table)
             after  == stat_counts(table')
         IN  /\ \A k \in 1..3 :
                  after[k] = before[k] + (IF Satisfies(f, k) THEN 1 ELSE 0)
             /\ Cardinality({k \in 1..3 : after[k] # before[k]}) <= 1]_vars

C2_Witness ==
    /\ Len(added) = 2
    /\ added[1] = [age |-> 40, gender |-> "MALE", education |-> "HIGHER", answer |-> TRUE]
    /\ added[2] = [age |-> 41, gender |-> "MALE", education |-> "HIGHER", answer |-> TRUE]
    /\ out = <<[kind |-> "stats", counts |-> <<1, 0, 0>>]>>

\* C3: every stored row has age in 0..120, gender one of the two gender tokens,
\* education one of the three education tokens and answer_yes 0 or 1, and the
\* INSERT of add_form never fails on a constraint of the schema.
C3_RowsInDomain ==
    /\ \A r \in table \cup disk :
         /\ r.age \in 0..120
         /\ r.gender \in {<<"cy_em">>, <<"cy_zhe">>}
         /\ r.education \in {<<"cy_en">>, <<"cy_es">>, <<"cy_ve">>}
         /\ r.answer_yes \in {0, 1}
    /\ error[1] # "IntegrityError"

C3_Witness ==
    /\ pc = "menu"
    /\ out = <<Printed(MsgThanks)>>
    /\ Len(added) = 2
    /\ Cardinality(disk) = Len(prior) + 2

\* C4: the menu loop has the states Running and Exited. A choice read at the
\* menu leads to Exited exactly when it is '0'; the choices '1', '2', '3' and
\* every other choice lead to Running. Exited is terminal. A choice that is
\* none of '1', '2', '3', '0' prints the message and leaves the records as
\* they are. (End of input at the menu is no choice: choice' is what menu()
\* returned in the step, and menu() returns unless input() raises.)
C4_MenuMachine ==
    [][/\ pc = "exited" => UNCHANGED vars
       /\ (pc = "menu" /\ error' # <<"EOFError", "menu">>) =>
            /\ choice' = <<"0">> <=> pc' = "exited"
            /\ choice' # <<"0">> => pc' \in Running
            /\ choice' \notin {<<"1">>, <<"2">>, <<"3">>, <<"0">>} =>
                 /\ out' = <<Printed(MsgNoSuchItem)>>
                 /\ pc' = "menu"
                 /\ table' = table /\ disk' = disk
       /\ (pc \in Running /\ pc' = "exited" /\ error' = NoError) =>
            pc = "menu" /\ choice' = <<"0">>]_vars

C4_Witness ==
    /\ pc = "menu"
    /\ choice = <<"9">>
    /\ out = <<Printed(MsgNoSuchItem)>>
    /\ Len(added) = 1
    /\ table = StoreOf(prior \o added)

\* C5: whenever the process has stopped after a connection was created, the
\* connection is closed.
C5_ClosedOnEveryExit == (pc = "exited" /\ conn # "none") => conn = "closed"

\* C6: no reader ends by raising an error to its caller, whatever the console
\* read gives (a valid line, an invalid line, an empty line, end of input).
C6_ReadersNeverRaise == rd.res.status # "raise"

\* str(v)
RECURSIVE Numeral(_)
Numeral(v) ==
    IF v < 0 THEN <<"-">> \o Numeral(0 - v)
    ELSE IF v < 10 THEN <<Digits[v + 1]>>
    ELSE Numeral(v \div 10) \o <<Digits[(v % 10) + 1]>>

\* a pass of the reader fn's loop on a typed line
PassOnLine(fn) == rd.fn = fn /\ rd'.n = rd.n + 1 /\ rd.stdin.kind = "line"

\* C7: read_int(prompt, lo, hi) reads only while it has not returned, and on
\* each line read: an integer within [lo, hi] is returned at once (so the value
\* returned is that of the first such line); an integer outside [lo, hi] is
\* refused with the range message; a line that is no integer is refused with
\* the other, 'integer required' message; after a refusal the reader prompts
\* again. The decimal numeral of v is the integer v, and a line without a digit
\* is no integer.
C7_ReadIntFirstInRange ==
    [][/\ (rd.fn = "read_int" /\ rd'.n # rd.n) => RdPrompting
       /\ PassOnLine("read_int") =>
            LET tok == rd.stdin.text
                p   == py_int(tok)
                res == rd'.res
                within(v) == rd.lo <= v /\ v <= rd.hi
            IN  /\ (p.ok /\ within(p.val)) => (res.status = "return" /\ res.val = p.val)
                /\ (p.ok /\ ~within(p.val)) =>
                     (res.status = "reprompt" /\ res.msg = MsgRange(rd.lo, rd.hi))
                /\ ~p.ok => (res.status = "reprompt" /\ res.msg = MsgIntRequired)
                /\ MsgRange(rd.lo, rd.hi) # MsgIntRequired
                /\ \A v \in (rd.lo - 1)..(rd.hi + 1) :
                     tok = Numeral(v) =>
                       IF within(v) THEN res.status = "return" /\ res.val = v
                       ELSE res.status = "reprompt" /\ res.msg = MsgRange(rd.lo, rd.hi)
                /\ (\A i \in 1..Len(tok) : tok[i] \notin DigitSet) =>
                     (res.status = "reprompt" /\ res.msg = MsgIntRequired)]_vars

C7_Witness ==
    /\ rd.fn = "read_int"
    /\ rd.lo = 0 /\ rd.hi = 120
    /\ rd.n = 3
    /\ rd.res.status = "return" /\ rd.res.val = 120
    /\ rd.taken = <<"1", "2", "0">>

\* the small and the capital form of each letter
CasePairs ==
    {<<"cy_em", "CY_EM">>, <<"cy_zhe", "CY_ZHE">>, <<"cy_en", "CY_EN">>,
     <<"cy_es", "CY_ES">>, <<"cy_ve", "CY_VE">>, <<"cy_de", "CY_DE">>, <<"m", "M">>}

\* s and t are the same text when case is ignored
SameIgnoringCase(s, t) ==
    /\ Len(s) = Len(t)
    /\ \A i \in 1..Len(s) :
         s[i] = t[i] \/ <<s[i], t[i]>> \in CasePairs \/ <<t[i], s[i]>> \in CasePairs

\* the option token each member is declared with
OptionToken(e) ==
    CASE e = "MALE"      -> <<"cy_em">>
      [] e = "FEMALE"    -> <<"cy_zhe">>
      [] e = "PRIMARY"   -> <<"cy_en">>
      [] e = "SECONDARY" -> <<"cy_es">>
      [] e = "HIGHER"    -> <<"cy_ve">>

Members(cls) ==
    IF cls = "Gender" THEN {"MALE", "FEMALE"} ELSE {"PRIMARY", "SECONDARY", "HIGHER"}

\* C8: for Gender and for Education, read_enum reads only while it has not
\* returned, and on each line read it returns member e exactly when the line,
\* case ignored, is e's option token (so it returns the member of the first such
\* line); a line that is no option token of the enum is refused with the
\* message and the reader prompts again.
C8_ReadEnumFirstOption ==
    [][/\ (rd.fn = "read_enum" /\ rd'.n # rd.n) => RdPrompting
       /\ PassOnLine("read_enum") =>
            LET tok == rd.stdin.text
                res == rd'.res
                matching == {e \in Members(rd.cls) : SameIgnoringCase(tok, OptionToken(e))}
            IN  /\ \A e \in Members(rd.cls) :
                     (res.status = "return" /\ res.val = e) <=> e \in matching
                /\ matching = {} =>
                     (res.status = "reprompt" /\ res.msg = MsgBadInput)]_vars

C8_Witness ==
    /\ rd.fn = "read_enum" /\ rd.cls = "Education"
    /\ rd.n = 2
    /\ rd.res.status = "return" /\ rd.res.val = "HIGHER"
    /\ rd.taken = <<"CY_VE">>

\* C9 as first stated: read_yes_no returns true on the line 'cy_de', false on
\* the line 'cy_en', and refuses every other line and prompts again.
C9_ExactlyTwoTokens ==
    [][PassOnLine("read_yes_no") =>
         LET tok == rd.stdin.text
             res == rd'.res
         IN  /\ tok = <<"cy_de">> => (res.status = "return" /\ res.val = TRUE)
             /\ tok = <<"cy_en">> => (res.status = "return" /\ res.val = FALSE)
             /\ tok \notin {<<"cy_de">>, <<"cy_en">>} => res.status = "reprompt"]_vars

\* C9 as amended: read_yes_no reads only while it has not returned, and on each
\* line read it returns true when the line, case ignored, is 'cy_de', false
\* when the line, case ignored, is 'cy_en' (so it returns the answer of the
\* first such line), and refuses every other line with the message and prompts
\* again.
C9_YesNoIgnoringCase ==
    [][/\ (rd.fn = "read_yes_no" /\ rd'.n # rd.n) => RdPrompting
       /\ PassOnLine("read_yes_no") =>
            LET tok == rd.stdin.text
                res == rd'.res
                yes == SameIgnoringCase(tok, <<"cy_de">>)
                no  == SameIgnoringCase(tok, <<"cy_en">>)
            IN  /\ yes => (res.status = "return" /\ res.val = TRUE)
                /\ no => (res.status = "return" /\ res.val = FALSE)
                /\ (~yes /\ ~no) =>
                     (res.status = "reprompt" /\ res.msg = MsgYesNo)]_vars

C9_Witness ==
    /\ rd.fn = "read_yes_no"
    /\ rd.n = 2
    /\ rd.res.status = "return" /\ rd.res.val = TRUE
    /\ rd.taken = <<"CY_DE">>

\* C10: at the menu prompt there is no uncommitted insert, and at every point,
\* every exit included, the file holds exactly the forms of the add operations
\* that completed (after those it held at the start); an add operation aborted
\* while its fields are read stores nothing.
C10_CommittedBeforeMenu ==
    /\ pc = "menu" => table = disk
    /\ disk = StoreOf(prior \o added)
    /\ (pc = "exited" /\ error[2] \in {"read_int", "read_enum", "read_yes_no"}) =>
         table = StoreOf(prior \o added)

C10_Witness ==
    /\ pc = "exited"
    /\ error = <<"EOFError", "read_yes_no">>
    /\ Len(added) = 1
    /\ prior = <<>>
    /\ Cardinality(disk) = 1

====
